---- MODULE Spec2Model ----
(***************************************************************************)
(* Model of scripts/build_data.py: the threshold-crossing peak detector    *)
(* (event_peaks), the timestamp-keyed merge (dedupe_peaks) and the run     *)
(* that folds freshly detected peaks into the persisted index              *)
(* (build_high_tide_index).                                                *)
(*                                                                         *)
(* Conventions.  A water level is an integer number of hundredths of a     *)
(* foot (4.19 ft is 419); the values the code handles are finite floats    *)
(* (parse_usgs_series drops the others), on which <, > and >= are the      *)
(* integer comparisons.  A timestamp is an integer number of days since    *)
(* 2000-01-01T00:00Z and stands for the ISO-8601 string of that instant    *)
(* in one fixed UTC offset, so that the order of the strings (the order    *)
(* sorted() and max() use) is the order of the integers.  A sample or a    *)
(* peak in memory is the tuple <<t, ft>>; a record of the index file is    *)
(* [t |-> t, ft |-> ft].                                                   *)
(***************************************************************************)
EXTENDS Integers, Sequences, FiniteSets, TLC

\* ------------------------------------------------------------------------
\* Program constants
\* ------------------------------------------------------------------------
THRESH_MINOR == 419

\* timedelta(days=7) of the look-back, timedelta(days=30) of a chunk
LOOKBACK_DAYS == 7
CHUNK_DAYS == 30

\* datetime(2000,1,1,tzinfo=timezone.utc)
EPOCH == 0

\* the parameter codes fetch_usgs_chunk asks for, in its order (line 56)
PRIMARY_PARAM == "72279"
FALLBACK_PARAM == "00065"
Params == <<PRIMARY_PARAM, FALLBACK_PARAM>>

\* Python's None for peak_t / peak_ft (outside the timestamps and the values)
None == -1

\* ------------------------------------------------------------------------
\* Bounds of the model
\* ------------------------------------------------------------------------
\* longest sample sequence handed to event_peaks on its own
MaxLen == 4
\* the timestamps of those samples are 1..MaxT
MaxT == 3
\* longest peak list handed to dedupe_peaks on its own (each of X and Y)
MaxPeaks == 2
\* the timestamps of those peaks are 1..MaxKey
MaxKey == 2
\* runs of build_high_tide_index in one behaviour
MaxRuns == 2
\* longest point list one attempt of fetch_usgs_chunk on its own parses
MaxPts == 1
\* the chunk loop on its own: start_dt in -LOOKBACK_DAYS..MaxStart, end_dt in
\* 0..MaxEnd
MaxStart == 3
MaxEnd == 65

\* water levels: below, exactly at, and above the minor threshold
Values == {400, 419, 450}
\* thresholds tried on event_peaks
Thresholds == {419, 450}
\* values of the peaks handed to dedupe_peaks on its own
PeakValues == {419, 450}
\* the instants at which the gauge has a sample (days since 2000-01-01)
SampleTimes == {1, 2, 8, 9, 30, 32}
\* the readings of datetime.now() a run can start at
NowTimes == {31, 32, 33}
\* the timestamps of the records an index can hold before the first run
InitTimes == {2, 9}

\* ------------------------------------------------------------------------
\* Helpers
\* ------------------------------------------------------------------------
Range(s) == {s[k] : k \in 1..Len(s)}

SeqsUpTo(S, n) == UNION {[1..k -> S] : k \in 0..n}

MaxOf(S) == CHOOSE x \in S : \A y \in S : y <= x

MinOf(S) == CHOOSE x \in S : \A y \in S : x <= y

\* ------------------------------------------------------------------------
\* event_peaks (lines 68-93)
\* ------------------------------------------------------------------------
\* the locals before the loop (lines 73-76)
DetectInit == [peaks |-> <<>>, in_evt |-> FALSE, peak_t |-> None, peak_ft |-> None]

\* a loop body that lets a later sample of equal value take the peak
LoopBodyTieLast(st, p, minor) ==
  LET t == p[1]
      ft == p[2]
  IN IF ~st.in_evt
     THEN IF ft >= minor
          THEN [st EXCEPT !.in_evt = TRUE, !.peak_t = t, !.peak_ft = ft]
          ELSE st
     ELSE LET up == IF ft >= st.peak_ft
                    THEN [st EXCEPT !.peak_t = t, !.peak_ft = ft]
                    ELSE st
          IN IF ft < minor
             THEN [peaks |-> Append(up.peaks, <<up.peak_t, up.peak_ft>>),
                   in_evt |-> FALSE, peak_t |-> None, peak_ft |-> None]
             ELSE up

\* a loop body that emits the closing sample instead of the current peak
LoopBodyEmitSample(st, p, minor) ==
  LET t == p[1]
      ft == p[2]
  IN IF ~st.in_evt
     THEN IF ft >= minor
          THEN [st EXCEPT !.in_evt = TRUE, !.peak_t = t, !.peak_ft = ft]
          ELSE st
     ELSE LET up == IF ft > st.peak_ft
                    THEN [st EXCEPT !.peak_t = t, !.peak_ft = ft]
                    ELSE st
          IN IF ft < minor
             THEN [peaks |-> Append(up.peaks, <<t, ft>>),
                   in_evt |-> FALSE, peak_t |-> None, peak_ft |-> None]
             ELSE up

\* a loop body that closes the event on a sample at the threshold (<=)
LoopBodyCloseAtThreshold(st, p, minor) ==
  LET t == p[1]
      ft == p[2]
  IN IF ~st.in_evt
     THEN IF ft >= minor
          THEN [st EXCEPT !.in_evt = TRUE, !.peak_t = t, !.peak_ft = ft]
          ELSE st
     ELSE LET up == IF ft > st.peak_ft
                    THEN [st EXCEPT !.peak_t = t, !.peak_ft = ft]
                    ELSE st
          IN IF ft <= minor
             THEN [peaks |-> Append(up.peaks, <<up.peak_t, up.peak_ft>>),
                   in_evt |-> FALSE, peak_t |-> None, peak_ft |-> None]
             ELSE up

\* a loop body that opens an event only above the threshold (>)
LoopBodyOpenStrict(st, p, minor) ==
  LET t == p[1]
      ft == p[2]
  IN IF ~st.in_evt
     THEN IF ft > minor
          THEN [st EXCEPT !.in_evt = TRUE, !.peak_t = t, !.peak_ft = ft]
          ELSE st
     ELSE LET up == IF ft > st.peak_ft
                    THEN [st EXCEPT !.peak_t = t, !.peak_ft = ft]
                    ELSE st
          IN IF ft < minor
             THEN [peaks |-> Append(up.peaks, <<up.peak_t, up.peak_ft>>),
                   in_evt |-> FALSE, peak_t |-> None, peak_ft |-> None]
             ELSE up

\* one iteration of "for t, ft in points" (lines 78-89)
LoopBody(st, p, minor) ==
  LET t == p[1]
      ft == p[2]
  IN IF ~st.in_evt
     THEN IF ft >= minor
          THEN [st EXCEPT !.in_evt = TRUE, !.peak_t = t, !.peak_ft = ft]
          ELSE st
     ELSE LET up == IF ft > st.peak_ft
                    THEN [st EXCEPT !.peak_t = t, !.peak_ft = ft]
                    ELSE st
          IN IF ft < minor
             THEN [peaks |-> Append(up.peaks, <<up.peak_t, up.peak_ft>>),
                   in_evt |-> FALSE, peak_t |-> None, peak_ft |-> None]
             ELSE up

\* the locals after the first k iterations of the loop
RECURSIVE DetectLoop(_, _, _)
DetectLoop(points, minor, k) ==
  IF k = 0 THEN DetectInit
  ELSE LoopBody(DetectLoop(points, minor, k - 1), points[k], minor)

\* event_peaks without the emission after the loop (lines 91-92 left out)
event_peaks_no_final(points, minor) ==
  DetectLoop(points, minor, Len(points)).peaks

\* event_peaks(points, minor): the loop, then the emission of an open event
event_peaks(points, minor) ==
  LET st == DetectLoop(points, minor, Len(points))
  IN IF st.in_evt /\ st.peak_t # None
     THEN Append(st.peaks, <<st.peak_t, st.peak_ft>>)
     ELSE st.peaks

\* ------------------------------------------------------------------------
\* dedupe_peaks (lines 101-108)
\* ------------------------------------------------------------------------
\* The dict m is the sequence of its items <<key, value>> in insertion order.
Keys(m) == {m[k][1] : k \in 1..Len(m)}

Get(m, t) == LET k == CHOOSE j \in 1..Len(m) : m[j][1] = t IN m[k][2]

\* m[t] = ft: a new key goes last, an old key keeps its place
DictSet(m, t, ft) ==
  IF t \in Keys(m)
  THEN [k \in 1..Len(m) |-> IF m[k][1] = t THEN <<t, ft>> ELSE m[k]]
  ELSE Append(m, <<t, ft>>)

\* the last record of a timestamp wins, whatever its value
DictUpdateLastWins(m, t, ft) == DictSet(m, t, ft)

\* the comparison of line 105 the wrong way round: the smaller value is kept
DictUpdateKeepMin(m, t, ft) ==
  IF (t \notin Keys(m)) \/ (ft < Get(m, t)) THEN DictSet(m, t, ft) ELSE m

\* the body of the loop (lines 105-106)
DictUpdate(m, t, ft) ==
  IF (t \notin Keys(m)) \/ (ft > Get(m, t)) THEN DictSet(m, t, ft) ELSE m

\* m after the first k records of peaks (lines 103-106)
RECURSIVE DedupeLoop(_, _)
DedupeLoop(peaks, k) ==
  IF k = 0 THEN <<>>
  ELSE DictUpdate(DedupeLoop(peaks, k - 1), peaks[k][1], peaks[k][2])

\* the keys in the order of insertion (no sort)
KeysInserted(m) == [k \in 1..Len(m) |-> m[k][1]]

\* the keys in descending order
RECURSIVE SortedDesc(_)
SortedDesc(S) ==
  IF S = {} THEN <<>>
  ELSE LET x == MaxOf(S) IN <<x>> \o SortedDesc(S \ {x})

KeysDescending(m) == SortedDesc(Keys(m))

\* sorted(S): the elements of a set of keys, ascending
RECURSIVE Sorted(_)
Sorted(S) ==
  IF S = {} THEN <<>>
  ELSE LET x == MinOf(S) IN <<x>> \o Sorted(S \ {x})

\* sorted(m.keys()) (line 107)
SortedKeys(m) == Sorted(Keys(m))

\* insert the sample p after the samples of s whose timestamp is <= its own
RECURSIVE InsertByT(_, _)
InsertByT(s, p) ==
  IF s = <<>> THEN <<p>>
  ELSE IF s[Len(s)][1] <= p[1] THEN Append(s, p)
  ELSE Append(InsertByT(SubSeq(s, 1, Len(s) - 1), p), s[Len(s)])

\* list.sort(key=lambda x: x[0]) (line 141): stable, ascending by timestamp
RECURSIVE SortByT(_)
SortByT(s) ==
  IF s = <<>> THEN <<>>
  ELSE InsertByT(SortByT(SubSeq(s, 1, Len(s) - 1)), s[Len(s)])

\* every record kept, only sorted: no collision handling at all
dedupe_peaks_keep_all(peaks) ==
  LET s == SortByT(peaks)
  IN [k \in 1..Len(s) |-> [t |-> s[k][1], ft |-> s[k][2]]]

\* dedupe_peaks(peaks): one record per timestamp, the largest value, ascending
dedupe_peaks(peaks) ==
  LET m == DedupeLoop(peaks, Len(peaks))
      ks == SortedKeys(m)
  IN [k \in 1..Len(ks) |-> [t |-> ks[k], ft |-> Get(m, ks[k])]]

\* ------------------------------------------------------------------------
\* build_high_tide_index: the pure parts
\* ------------------------------------------------------------------------
\* the records of a loaded peaks list that have both keys, in file order
RECURSIVE WithKeys(_)
WithKeys(ps) ==
  IF ps = <<>> THEN <<>>
  ELSE LET rest == WithKeys(SubSeq(ps, 1, Len(ps) - 1))
           p == ps[Len(ps)]
       IN IF "t" \in DOMAIN p /\ "ft" \in DOMAIN p THEN Append(rest, p) ELSE rest

\* existing_peaks: the loaded records as tuples (line 113)
ExistingPeaks(ps) ==
  LET w == WithKeys(ps) IN [k \in 1..Len(w) |-> <<w[k].t, w[k].ft>>]

\* a merge that keeps the records of this run only
MergeNewOnly(existing_tuples, new_tuples) == dedupe_peaks(new_tuples)

\* merged_dedup for existing tuples and new tuples (lines 144-145)
Merge(existing_tuples, new_tuples) == dedupe_peaks(existing_tuples \o new_tuples)

\* start_dt (lines 116-124); every timestamp of the model is a well-formed
\* ISO string, which datetime.fromisoformat reads as the instant it names
StartDt(existing_tuples) ==
  IF existing_tuples # <<>>
  THEN LET latest_t == MaxOf({existing_tuples[k][1] : k \in 1..Len(existing_tuples)})
       IN latest_t - LOOKBACK_DAYS
  ELSE EPOCH

\* a chunk end that is not capped by end_dt
NxtNoMin(c, e) == c + CHUNK_DAYS

\* nxt = min(end_dt, cur + chunk) (line 134)
Nxt(c, e) == IF e <= c + CHUNK_DAYS THEN e ELSE c + CHUNK_DAYS

\* what the provider holds for startDT=a, endDT=b: the samples of the series
\* with a <= t <= b, in chronological order
Window(ser, a, b) ==
  LET ts == Sorted({t \in DOMAIN ser : a <= t /\ t <= b})
  IN [k \in 1..Len(ts) |-> <<ts[k], ser[ts[k]]>>]

\* the outcomes of one attempt (lines 59-61): an exception, no point, the points
Attempts(ser, a, b) ==
  {[ok |-> FALSE, pts |-> <<>>], [ok |-> TRUE, pts |-> <<>>],
   [ok |-> TRUE, pts |-> Window(ser, a, b)]}

\* no try/except: the exception of an attempt leaves fetch_usgs_chunk
RECURSIVE FetchFromNoExcept(_, _, _)
FetchFromNoExcept(resp, k, asked) ==
  IF k > Len(Params) THEN [pts |-> <<>>, asked |-> asked, raised |-> FALSE]
  ELSE LET r == resp[Params[k]]
           asked2 == Append(asked, Params[k])
       IN IF ~r.ok THEN [pts |-> <<>>, asked |-> asked2, raised |-> TRUE]
          ELSE IF r.pts # <<>>
          THEN [pts |-> r.pts, asked |-> asked2, raised |-> FALSE]
          ELSE FetchFromNoExcept(resp, k + 1, asked2)

fetch_usgs_chunk_no_except(resp) == FetchFromNoExcept(resp, 1, <<>>)

\* the loop over the parameters from the k-th on (lines 56-66); asked lists
\* the parameters queried so far
RECURSIVE FetchFrom(_, _, _)
FetchFrom(resp, k, asked) ==
  IF k > Len(Params) THEN [pts |-> <<>>, asked |-> asked, raised |-> FALSE]
  ELSE LET r == resp[Params[k]]
           asked2 == Append(asked, Params[k])
       IN IF r.ok /\ r.pts # <<>>
          THEN [pts |-> r.pts, asked |-> asked2, raised |-> FALSE]
          ELSE FetchFrom(resp, k + 1, asked2)

\* fetch_usgs_chunk (lines 52-66); resp[param] is what the attempt for param
\* ends with, were it made
fetch_usgs_chunk(resp) == FetchFrom(resp, 1, <<>>)

\* ------------------------------------------------------------------------
\* State
\* ------------------------------------------------------------------------
VARIABLES
  index,          \* the "peaks" list of data/high_tides_index.json
  series,         \* the gauge's series at the provider: SampleTimes -> Values
  pc,             \* "idle" between runs, "fetch" in the chunk loop
  existing_peaks, \* locals of build_high_tide_index
  start_dt,
  end_dt,
  cur,
  all_points,
  faithful,       \* every fetch of the run so far returned the provider's window
  windows,        \* the <<cur, nxt>> fetched so far in the run
  hist,           \* one summary per completed run
  resp,           \* fetch_usgs_chunk on its own: outcome per parameter, result
  fetched,
  fetch_done,
  points,         \* event_peaks on its own: arguments, result, done
  minor,
  peaks,
  detected,
  X,              \* dedupe_peaks on its own: existing, incoming, results, done
  Y,
  XY,
  XXY,
  XYY,
  merged

run_vars == <<index, series, pc, existing_peaks, start_dt, end_dt, cur,
              all_points, faithful, windows, hist>>
fetch_vars == <<resp, fetched, fetch_done>>
detect_vars == <<points, minor, peaks, detected>>
merge_vars == <<X, Y, XY, XXY, XYY, merged>>
vars == <<run_vars, detect_vars, merge_vars, fetch_vars>>

Samples == (1..MaxT) \X Values
PeakTuples == (1..MaxKey) \X PeakValues

\* the lists an index file can hold before the first run: canonical
InitIndexes ==
  {ps \in SeqsUpTo([t : InitTimes, ft : PeakValues], Cardinality(InitTimes)) :
     \A k \in 1..(Len(ps) - 1) : ps[k].t < ps[k + 1].t}

RunIdle ==
  /\ pc = "idle"
  /\ existing_peaks = <<>>
  /\ start_dt = EPOCH
  /\ end_dt = EPOCH
  /\ cur = EPOCH
  /\ all_points = <<>>
  /\ faithful = TRUE
  /\ windows = <<>>
  /\ hist = <<>>

FetchIdle ==
  /\ resp = [p \in Range(Params) |-> [ok |-> FALSE, pts |-> <<>>]]
  /\ fetched = [pts |-> <<>>, asked |-> <<>>, raised |-> FALSE]
  /\ fetch_done = FALSE

DetectIdle ==
  /\ points = <<>>
  /\ minor = THRESH_MINOR
  /\ peaks = <<>>
  /\ detected = FALSE

MergeIdle ==
  /\ X = <<>>
  /\ Y = <<>>
  /\ XY = <<>>
  /\ XXY = <<>>
  /\ XYY = <<>>
  /\ merged = FALSE

\* ------------------------------------------------------------------------
\* build_high_tide_index, run after run
\* ------------------------------------------------------------------------
Init ==
  /\ index \in InitIndexes
  /\ series \in [SampleTimes -> Values]
  /\ RunIdle
  /\ DetectIdle
  /\ MergeIdle
  /\ FetchIdle

\* lines 111-131: load, start_dt, end_dt, the locals of the loop
StartRun ==
  /\ pc = "idle"
  /\ Len(hist) < MaxRuns
  /\ \E now \in NowTimes :
       /\ now > end_dt
       /\ end_dt' = now
  /\ existing_peaks' = ExistingPeaks(index)
  /\ start_dt' = StartDt(existing_peaks')
  /\ cur' = start_dt'
  /\ all_points' = <<>>
  /\ faithful' = TRUE
  /\ windows' = <<>>
  /\ pc' = "fetch"
  /\ UNCHANGED <<index, series, hist, detect_vars, merge_vars, fetch_vars>>

\* lines 133-138: one iteration of the chunk loop
FetchChunk ==
  /\ pc = "fetch"
  /\ cur < end_dt
  /\ LET nxt == Nxt(cur, end_dt)
     IN /\ \E r \in [Range(Params) -> Attempts(series, cur, nxt)] :
             LET pts == fetch_usgs_chunk(r).pts
             IN /\ all_points' = all_points \o pts
                /\ faithful' = (faithful /\ pts = Window(series, cur, nxt))
        /\ windows' = Append(windows, <<cur, nxt>>)
        /\ cur' = nxt
  /\ UNCHANGED <<index, series, pc, existing_peaks, start_dt, end_dt, hist,
                 detect_vars, merge_vars, fetch_vars>>

\* lines 141-155: sort, detect, merge, dedupe, save
FinishRun ==
  /\ pc = "fetch"
  /\ ~(cur < end_dt)
  /\ LET sorted_points == SortByT(all_points)
         new_peaks == event_peaks(sorted_points, THRESH_MINOR)
         merged_dedup == Merge(existing_peaks, new_peaks)
     IN /\ index' = merged_dedup
        /\ hist' = Append(hist, [before |-> index, after |-> merged_dedup,
                                 start |-> start_dt, end |-> end_dt,
                                 faithful |-> faithful,
                                 points |-> sorted_points,
                                 new_peaks |-> new_peaks,
                                 windows |-> windows])
  /\ pc' = "idle"
  /\ UNCHANGED <<series, existing_peaks, start_dt, end_dt, cur, all_points,
                 faithful, windows, detect_vars, merge_vars, fetch_vars>>

Next == StartRun \/ FetchChunk \/ FinishRun

Spec == Init /\ [][Next]_vars

\* ------------------------------------------------------------------------
\* event_peaks on its own: any sample sequence, any threshold
\* ------------------------------------------------------------------------
InitDetect ==
  /\ points \in SeqsUpTo(Samples, MaxLen)
  /\ minor \in Thresholds
  /\ peaks = <<>>
  /\ detected = FALSE
  /\ index = <<>>
  /\ series = [t \in SampleTimes |-> 400]
  /\ RunIdle
  /\ MergeIdle
  /\ FetchIdle

Detect ==
  /\ ~detected
  /\ peaks' = event_peaks(points, minor)
  /\ detected' = TRUE
  /\ UNCHANGED <<points, minor, run_vars, merge_vars, fetch_vars>>

NextDetect == Detect

SpecDetect == InitDetect /\ [][NextDetect]_vars

\* ------------------------------------------------------------------------
\* the merge on its own: any existing list X, any incoming batch Y
\* ------------------------------------------------------------------------
InitMerge ==
  /\ X \in SeqsUpTo(PeakTuples, MaxPeaks)
  /\ Y \in SeqsUpTo(PeakTuples, MaxPeaks)
  /\ XY = <<>>
  /\ XXY = <<>>
  /\ XYY = <<>>
  /\ merged = FALSE
  /\ index = <<>>
  /\ series = [t \in SampleTimes |-> 400]
  /\ RunIdle
  /\ DetectIdle
  /\ FetchIdle

\* merge(X,Y), then merge(X, merge(X,Y)) and merge(merge(X,Y), Y); a merged
\* list comes back as tuples the way a run loads it (line 113)
MergeTwice ==
  /\ ~merged
  /\ XY' = Merge(X, Y)
  /\ XXY' = Merge(X, ExistingPeaks(XY'))
  /\ XYY' = Merge(ExistingPeaks(XY'), Y)
  /\ merged' = TRUE
  /\ UNCHANGED <<X, Y, run_vars, detect_vars, fetch_vars>>

NextMerge == MergeTwice

SpecMerge == InitMerge /\ [][NextMerge]_vars

\* ------------------------------------------------------------------------
\* fetch_usgs_chunk on its own: any outcome of either attempt
\* ------------------------------------------------------------------------
\* an attempt raises, or parses a point list (possibly empty)
Outcomes ==
  {[ok |-> FALSE, pts |-> <<>>]}
    \cup {[ok |-> TRUE, pts |-> ps] : ps \in SeqsUpTo(Samples, MaxPts)}

InitFetch ==
  /\ resp \in [Range(Params) -> Outcomes]
  /\ fetched = [pts |-> <<>>, asked |-> <<>>, raised |-> FALSE]
  /\ fetch_done = FALSE
  /\ index = <<>>
  /\ series = [t \in SampleTimes |-> 400]
  /\ RunIdle
  /\ DetectIdle
  /\ MergeIdle

Fetch ==
  /\ ~fetch_done
  /\ fetched' = fetch_usgs_chunk(resp)
  /\ fetch_done' = TRUE
  /\ UNCHANGED <<resp, run_vars, detect_vars, merge_vars>>

NextFetch == Fetch

SpecFetch == InitFetch /\ [][NextFetch]_vars

\* ------------------------------------------------------------------------
\* the chunk loop on its own: any start_dt, any end_dt (lines 128-155)
\* ------------------------------------------------------------------------
InitChunks ==
  /\ start_dt \in (0 - LOOKBACK_DAYS)..MaxStart
  /\ end_dt \in 0..MaxEnd
  /\ cur = start_dt
  /\ pc = "fetch"
  /\ index = <<>>
  /\ series = [t \in SampleTimes |-> 450]
  /\ existing_peaks = <<>>
  /\ all_points = <<>>
  /\ faithful = TRUE
  /\ windows = <<>>
  /\ hist = <<>>
  /\ DetectIdle
  /\ MergeIdle
  /\ FetchIdle

NextChunks == FetchChunk \/ FinishRun

\* what a step of the run does to its position: an iteration of the loop
\* moves cur to nxt (lines 133-137), the rest of the run follows the loop
\* (lines 141-155). Every step of NextChunks is such a step and one is
\* possible exactly when the other is.
ChunkStep ==
  /\ pc = "fetch"
  /\ IF cur < end_dt THEN cur' = Nxt(cur, end_dt) /\ pc' = pc
     ELSE cur' = cur /\ pc' = "idle"

\* the run is one synchronous thread and every fetch returns (http_get has a
\* timeout), so a step that can be taken is taken
SpecChunks == InitChunks /\ [][NextChunks]_vars /\ WF_<<pc, cur>>(ChunkStep)

\* ------------------------------------------------------------------------
\* Events of a sample sequence, defined without the detector
\* ------------------------------------------------------------------------
Above(s, thr, k) == s[k][2] >= thr

\* first positions of the maximal contiguous runs of samples >= thr
RunStarts(s, thr) ==
  {a \in 1..Len(s) : Above(s, thr, a) /\ (a = 1 \/ ~Above(s, thr, a - 1))}

\* last position of the run that starts at a
RunEnd(s, thr, a) ==
  MaxOf({b \in a..Len(s) : \A j \in a..b : Above(s, thr, j)})

\* the starts in ascending order: the k-th run starts at RunSeq(s, thr)[k]
RunSeq(s, thr) == Sorted(RunStarts(s, thr))

RunMax(s, thr, a) == MaxOf({s[j][2] : j \in a..RunEnd(s, thr, a)})

\* the first position of the run at which the run's maximum is attained
FirstMaxPos(s, thr, a) ==
  MinOf({j \in a..RunEnd(s, thr, a) : s[j][2] = RunMax(s, thr, a)})

IsAscending(s) == \A k \in 1..(Len(s) - 1) : s[k][1] <= s[k + 1][1]

IsStrictlyAscending(s) == \A k \in 1..(Len(s) - 1) : s[k][1] < s[k + 1][1]

\* ------------------------------------------------------------------------
\* C1: on a sample sequence ascending by timestamp, event_peaks returns one
\* record per maximal contiguous run of samples >= threshold, in the order
\* of the runs (chronological), the k-th record being a sample of the k-th
\* run that carries the maximum value of that run.
\* ------------------------------------------------------------------------
C1_OneRecordPerRun ==
  (detected /\ IsAscending(points)) =>
    LET rs == RunSeq(points, minor)
    IN /\ Len(peaks) = Len(rs)
       /\ \A k \in 1..Len(rs) :
            /\ peaks[k][2] = RunMax(points, minor, rs[k])
            /\ \E j \in rs[k]..RunEnd(points, minor, rs[k]) : points[j] = peaks[k]
       /\ IsAscending(peaks)

\* two events, the first with its peak after its first sample
C1_Witness ==
  /\ detected
  /\ IsAscending(points)
  /\ Cardinality({points[k][1] : k \in 1..Len(points)}) = MaxT
  /\ Len(points) = 4
  /\ Len(RunSeq(points, minor)) = 2
  /\ points[1][2] >= minor
  /\ points[2][2] > points[1][2]
  /\ points[3][2] < minor
  /\ peaks = <<points[2], points[4]>>

\* ------------------------------------------------------------------------
\* C8: for every threshold and every sample sequence, sorted or not, every
\* record event_peaks returns has a value >= the threshold and is one of
\* the samples of the sequence.
\* ------------------------------------------------------------------------
C8_PeaksAboveThreshold ==
  detected =>
    \A k \in 1..Len(peaks) :
      /\ peaks[k][2] >= minor
      /\ peaks[k] \in Range(points)

\* an unsorted sequence with a closed event and an open one
C8_Witness ==
  /\ detected
  /\ ~IsAscending(points)
  /\ Len(peaks) = 2
  /\ \E k \in 1..Len(points) : points[k][2] < minor

\* ------------------------------------------------------------------------
\* C9: the record of a run carries the timestamp of the first sample of the
\* run that attains the run's maximum; while an event is open, a sample
\* whose value equals the current peak's leaves peak_t as it is.
\* ------------------------------------------------------------------------
C9_FirstMaxWins ==
  detected =>
    /\ LET rs == RunSeq(points, minor)
       IN \A k \in 1..Len(rs) :
            k <= Len(peaks) =>
              peaks[k][1] = points[FirstMaxPos(points, minor, rs[k])][1]
    /\ \A k \in 1..Len(points) :
         LET a == DetectLoop(points, minor, k - 1)
             b == DetectLoop(points, minor, k)
         IN (a.in_evt /\ points[k][2] = a.peak_ft) =>
              (b.in_evt /\ b.peak_t = a.peak_t)

\* the tie of the spec: [(t1,4.50),(t2,4.50),(t3,4.00)] gives [(t1,4.50)]
C9_Witness ==
  /\ detected
  /\ Len(points) = 3
  /\ points[1][1] < points[2][1]
  /\ points[2][1] < points[3][1]
  /\ points[1][2] >= minor
  /\ points[2][2] = points[1][2]
  /\ points[3][2] < minor
  /\ peaks = <<points[1]>>

\* ------------------------------------------------------------------------
\* C10: when the last sample has a value >= threshold, the output is not
\* empty and its last record is the current peak of the open event: the
\* first sample attaining the maximum of the last run.
\* ------------------------------------------------------------------------
C10_OpenEventEmitted ==
  (detected /\ points # <<>> /\ Above(points, minor, Len(points))) =>
    LET a == MaxOf(RunStarts(points, minor))
    IN /\ peaks # <<>>
       /\ peaks[Len(peaks)] = points[FirstMaxPos(points, minor, a)]

\* a closed event, then an open event of two samples at the end of input
C10_Witness ==
  /\ detected
  /\ Len(points) = 4
  /\ IsAscending(points)
  /\ points[1][1] < points[2][1]
  /\ points[3][1] < points[4][1]
  /\ points[1][2] >= minor
  /\ points[2][2] < minor
  /\ points[3][2] >= minor
  /\ points[4][2] > points[3][2]
  /\ peaks = <<points[1], points[4]>>

\* ------------------------------------------------------------------------
\* C2: merge(X, merge(X,Y)) = merge(X,Y), and merging Y once more into
\* merge(X,Y) leaves it unchanged, for X and Y in any order and with
\* repeated timestamps.
\* ------------------------------------------------------------------------
C2_MergeIdempotent ==
  merged => (XXY = XY /\ XYY = XY)

\* X unsorted, Y with a repeated timestamp that X holds with a smaller value
C2_Witness ==
  /\ merged
  /\ ~IsAscending(X)
  /\ Len(Y) = 2
  /\ Y[1][1] = Y[2][1]
  /\ Y[1][2] > Y[2][2]
  /\ \E i \in 1..Len(X) : X[i][1] = Y[1][1] /\ X[i][2] < Y[1][2]
  /\ Len(XY) = 2
  /\ XXY = XY

\* ------------------------------------------------------------------------
\* C7: the merge holds exactly the timestamps of its inputs, once each; a
\* timestamp of both inputs gets the larger of the two values (the existing
\* value stays unless the incoming one is strictly greater), a timestamp of
\* one input keeps that input's value (its largest, if the input repeats
\* the timestamp).
\* ------------------------------------------------------------------------
TsOf(s) == {s[k][1] : k \in 1..Len(s)}

ValuesAt(s, t) == {s[k][2] : k \in {j \in 1..Len(s) : s[j][1] = t}}

C7_MergeKeepsMax ==
  merged =>
    /\ {XY[k].t : k \in 1..Len(XY)} = TsOf(X) \cup TsOf(Y)
    /\ \A j, k \in 1..Len(XY) : XY[j].t = XY[k].t => j = k
    /\ \A k \in 1..Len(XY) :
         LET t == XY[k].t
             vx == ValuesAt(X, t)
             vy == ValuesAt(Y, t)
         IN IF vx # {} /\ vy # {}
            THEN XY[k].ft = (IF MaxOf(vy) > MaxOf(vx) THEN MaxOf(vy) ELSE MaxOf(vx))
            ELSE IF vx # {} THEN XY[k].ft = MaxOf(vx)
            ELSE XY[k].ft = MaxOf(vy)

\* merge({A:4.19}, [(A,4.50),(B,4.19)]) = [(A,4.50),(B,4.19)] of the spec,
\* and the other way round: an incoming smaller value leaves the record
C7_Witness ==
  /\ merged
  /\ Len(X) = 2
  /\ Len(Y) = 2
  /\ X[1][1] < X[2][1]
  /\ Y[1][1] = X[1][1]
  /\ Y[1][2] > X[1][2]
  /\ Y[2][1] = X[2][1]
  /\ Y[2][2] < X[2][2]
  /\ XY = <<[t |-> X[1][1], ft |-> Y[1][2]], [t |-> X[2][1], ft |-> X[2][2]]>>

\* ------------------------------------------------------------------------
\* Runs of build_high_tide_index
\* ------------------------------------------------------------------------
RecsStrictlyAscending(ps) == \A k \in 1..(Len(ps) - 1) : ps[k].t < ps[k + 1].t

\* the instants of the series in a <= t <= b
SeriesTimes(a, b) == {t \in DOMAIN series : a <= t /\ t <= b}

\* ------------------------------------------------------------------------
\* C3: in every run, whatever it fetched, each timestamp of the index it
\* loaded is in the index it saved, with a value >= the loaded one.
\* ------------------------------------------------------------------------
C3_StoredPeakNeverDecreases ==
  \A k \in 1..Len(hist) :
    \A i \in 1..Len(hist[k].before) :
      \E j \in 1..Len(hist[k].after) :
        /\ hist[k].after[j].t = hist[k].before[i].t
        /\ hist[k].after[j].ft >= hist[k].before[i].ft

\* a run that detected, for a stored timestamp, a smaller value than the
\* stored one, and that also added a record
C3_Witness ==
  \E k \in 1..Len(hist) :
    /\ Len(hist[k].after) > Len(hist[k].before)
    /\ \E i \in 1..Len(hist[k].before), n \in 1..Len(hist[k].new_peaks) :
         /\ hist[k].new_peaks[n][1] = hist[k].before[i].t
         /\ hist[k].new_peaks[n][2] < hist[k].before[i].ft

\* ------------------------------------------------------------------------
\* C4: the peaks list a run saves is strictly ascending by timestamp (so no
\* two of its records share a timestamp), whatever was loaded and fetched
\* and in whatever order existing and new records were concatenated.
\* ------------------------------------------------------------------------
C4_SavedIndexCanonical ==
  /\ \A k \in 1..Len(hist) : RecsStrictlyAscending(hist[k].after)
  /\ hist # <<>> => (index = hist[Len(hist)].after /\ RecsStrictlyAscending(index))

\* a run whose concatenation existing + new is out of order and repeats a
\* timestamp
C4_Witness ==
  \E k \in 1..Len(hist) :
    LET cat == ExistingPeaks(hist[k].before) \o hist[k].new_peaks
    IN /\ ~IsAscending(cat)
       /\ \E i, j \in 1..Len(cat) : i # j /\ cat[i][1] = cat[j][1]
       /\ Len(hist[k].after) >= 2

\* ------------------------------------------------------------------------
\* C5 (as claimed): when a run has fetched the provider's series over its
\* whole window, the next run, over the same series (no sample newer than
\* the first run's end), starting 7 days before the latest stored peak and
\* fetching its whole window too, saves the peaks list it loaded.
\* ------------------------------------------------------------------------
C5_RescanLeavesIndex ==
  \A k \in 2..Len(hist) :
    ( /\ hist[k - 1].faithful
      /\ hist[k].faithful
      /\ hist[k].before # <<>>
      /\ SeriesTimes(hist[k - 1].end + 1, hist[k].end) = {} )
    => hist[k].after = hist[k].before

\* ------------------------------------------------------------------------
\* C6: a run whose every fetch returned no sample detects no peak and saves
\* the peaks list it loaded, same records in the same order.
\* ------------------------------------------------------------------------
C6_EmptyFetchIsNoOp ==
  \A k \in 1..Len(hist) :
    hist[k].points = <<>> =>
      (hist[k].new_peaks = <<>> /\ hist[k].after = hist[k].before)

\* the provider had samples in the window, every fetch failed or was empty,
\* and the index of two records came through unchanged
C6_Witness ==
  \E k \in 1..Len(hist) :
    /\ hist[k].points = <<>>
    /\ SeriesTimes(hist[k].start, hist[k].end) # {}
    /\ Len(hist[k].before) >= 2
    /\ hist[k].after = hist[k].before

\* ------------------------------------------------------------------------
\* C11: a sample whose value equals the threshold opens an event when the
\* detector is BELOW (and seeds the peak), and leaves the event open when
\* the detector is ABOVE; the detector leaves ABOVE exactly on a sample
\* whose value is strictly less than the threshold, emitting one record.
\* ------------------------------------------------------------------------
C11_ThresholdCountsAsAbove ==
  detected =>
    \A k \in 1..Len(points) :
      LET a == DetectLoop(points, minor, k - 1)
          b == DetectLoop(points, minor, k)
          ft == points[k][2]
      IN /\ (~a.in_evt /\ ft = minor) =>
              (b.in_evt /\ b.peak_t = points[k][1] /\ b.peak_ft = ft)
         /\ (a.in_evt /\ ft = minor) => (b.in_evt /\ b.peaks = a.peaks)
         /\ (a.in_evt /\ ~b.in_evt) <=> (a.in_evt /\ ft < minor)
         /\ (a.in_evt /\ ~b.in_evt) => Len(b.peaks) = Len(a.peaks) + 1

\* below, at the threshold, at the threshold, below: one event, one record
C11_Witness ==
  /\ detected
  /\ Len(points) = 4
  /\ points[1][2] < minor
  /\ points[2][2] = minor
  /\ points[3][2] = minor
  /\ points[4][2] < minor
  /\ peaks = <<points[2]>>

\* ------------------------------------------------------------------------
\* C13 (as claimed): event_peaks does not return a peak list for a sample
\* sequence that is not ascending by timestamp: the call ends in a
\* precondition failure instead.
\* ------------------------------------------------------------------------
C13_UnsortedInputRejected ==
  ~IsAscending(points) => ~detected

\* ------------------------------------------------------------------------
\* Events of the provider's series
\* ------------------------------------------------------------------------
\* t1 and t2 are instants of the series with no sample below THRESH_MINOR
\* from the one to the other: they lie in one maximal above-threshold run
SameSeriesEvent(t1, t2) ==
  /\ t1 \in DOMAIN series
  /\ t2 \in DOMAIN series
  /\ \A t \in SeriesTimes(MinOf({t1, t2}), MaxOf({t1, t2})) :
       series[t] >= THRESH_MINOR

\* run k fetched its whole window and its last sample is above the threshold
OpenAtEnd(k) ==
  /\ hist[k].faithful
  /\ hist[k].points # <<>>
  /\ hist[k].points[Len(hist[k].points)][2] >= THRESH_MINOR

\* the index run k saved has a record for timestamp t
Saved(k, t) == \E j \in 1..Len(hist[k].after) : hist[k].after[j].t = t

\* ------------------------------------------------------------------------
\* C12: when a run ended with an event open and the next run, over the same
\* series, sees more of that event and detects for it a peak with another
\* timestamp, the index the second run saves holds both records: two
\* records with different timestamps inside one maximal above-threshold
\* run of the series. The merge does not collapse them.
\* ------------------------------------------------------------------------
C12_OpenEventSplitsInTwo ==
  \A k \in 2..Len(hist) :
    \A n \in 1..Len(hist[k].new_peaks) :
      LET prev == hist[k - 1].new_peaks
          p == prev[Len(prev)]
          q == hist[k].new_peaks[n]
      IN ( /\ OpenAtEnd(k - 1)
           /\ hist[k].faithful
           /\ q[1] > hist[k - 1].end
           /\ SameSeriesEvent(p[1], q[1]) )
         => /\ Saved(k, p[1])
            /\ Saved(k, q[1])
            /\ Cardinality({j \in 1..Len(hist[k].after) :
                              SameSeriesEvent(hist[k].after[j].t, q[1])}) >= 2

\* the first run stored the peak of the part it saw, the second run found
\* a higher one later in the same event, and the index holds both
C12_Witness ==
  \E k \in 2..Len(hist) :
    \E n \in 1..Len(hist[k].new_peaks) :
      LET prev == hist[k - 1].new_peaks
          p == prev[Len(prev)]
          q == hist[k].new_peaks[n]
      IN /\ OpenAtEnd(k - 1)
         /\ hist[k].faithful
         /\ q[1] > hist[k - 1].end
         /\ q[2] > p[2]
         /\ SameSeriesEvent(p[1], q[1])
         /\ Saved(k, p[1])
         /\ Saved(k, q[1])
         /\ index = hist[k].after

\* the instants of the maximal above-threshold run of the series around t
SeriesEvent(t) == {u \in DOMAIN series : SameSeriesEvent(u, t)}

\* the true peak of that run: the first instant attaining its maximum, as a
\* record of the index
TruePeak(t) ==
  LET m == MaxOf({series[u] : u \in SeriesEvent(t)})
  IN [t |-> MinOf({u \in SeriesEvent(t) : series[u] = m}), ft |-> m]

\* ------------------------------------------------------------------------
\* C14 (as claimed): when run N ended with an event open, the peak it
\* detected for the part it saw being the latest record of the index it
\* saved, and run N+1 fetched every sample of its window, which reaches a
\* sample below the threshold after the event, the index run N+1 saves
\* holds the record of the true peak of the whole event (the first sample
\* attaining the maximum of the entire event), even when the window starts
\* inside that event.
\* ------------------------------------------------------------------------
C14_LookBackFindsTruePeak ==
  \A k \in 2..Len(hist) :
    LET pts == hist[k - 1].points
        prev == hist[k - 1].new_peaks
        p == prev[Len(prev)]
        saved == hist[k - 1].after
    IN ( /\ pts # <<>>
         /\ pts[Len(pts)][2] >= THRESH_MINOR
         /\ saved[Len(saved)] = [t |-> p[1], ft |-> p[2]]
         /\ hist[k].faithful
         /\ \E u \in SeriesTimes(p[1], hist[k].end) : series[u] < THRESH_MINOR )
       => \E j \in 1..Len(hist[k].after) : hist[k].after[j] = TruePeak(p[1])

\* ------------------------------------------------------------------------
\* fetch_usgs_chunk
\* ------------------------------------------------------------------------
\* the attempt for param gives at least one point
Yields(param) == resp[param].ok /\ resp[param].pts # <<>>

\* ------------------------------------------------------------------------
\* C15: fetch_usgs_chunk queries the primary parameter first and the
\* fallback parameter only when the primary attempt raised or gave no
\* point; it returns the first non-empty point list obtained, the empty
\* list when both attempts raise or are empty, and never lets an exception
\* out.
\* ------------------------------------------------------------------------
C15_FallbackOnlyOnFailure ==
  fetch_done =>
    /\ ~fetched.raised
    /\ fetched.asked = IF Yields(PRIMARY_PARAM) THEN <<PRIMARY_PARAM>>
                       ELSE <<PRIMARY_PARAM, FALLBACK_PARAM>>
    /\ fetched.pts = IF Yields(PRIMARY_PARAM) THEN resp[PRIMARY_PARAM].pts
                     ELSE IF Yields(FALLBACK_PARAM) THEN resp[FALLBACK_PARAM].pts
                     ELSE <<>>

\* the primary attempt raised and the fallback's points were returned
C15_Witness ==
  /\ fetch_done
  /\ ~resp[PRIMARY_PARAM].ok
  /\ Yields(FALLBACK_PARAM)
  /\ fetched.asked = <<PRIMARY_PARAM, FALLBACK_PARAM>>
  /\ fetched.pts = resp[FALLBACK_PARAM].pts
  /\ ~fetched.raised

\* ------------------------------------------------------------------------
\* The chunk loop
\* ------------------------------------------------------------------------
\* the windows fetched so far start at start_dt, each begins where the one
\* before ended, is not empty and spans at most CHUNK_DAYS, and cur is the
\* end of the last one
WindowsConsecutive ==
  /\ \A k \in 1..Len(windows) :
       /\ windows[k][1] = (IF k = 1 THEN start_dt ELSE windows[k - 1][2])
       /\ windows[k][1] < windows[k][2]
       /\ windows[k][2] - windows[k][1] <= CHUNK_DAYS
       /\ windows[k][2] <= end_dt
  /\ pc = "fetch" => cur = (IF windows = <<>> THEN start_dt
                            ELSE windows[Len(windows)][2])

\* the run is over: the index was saved
RunSaved == pc = "idle" /\ hist # <<>> /\ index = hist[Len(hist)].after

\* once the run is over its windows end at end_dt, and there is none when
\* start_dt >= end_dt
WindowsTile ==
  RunSaved =>
    /\ hist[Len(hist)].windows = windows
    /\ IF start_dt >= end_dt THEN windows = <<>>
       ELSE windows # <<>> /\ windows[Len(windows)][2] = end_dt

\* ------------------------------------------------------------------------
\* C16: for every start_dt and end_dt, whatever each fetch returns, the
\* chunk loop terminates and the run reaches the save of the index; the
\* windows [cur, nxt] it fetched are consecutive, each at most 30 days
\* long, and tile exactly [start_dt, end_dt] (none when start_dt >= end_dt).
\* ------------------------------------------------------------------------
C16_ChunkLoopTilesAndEnds ==
  /\ [](WindowsConsecutive /\ WindowsTile)
  /\ (pc = "fetch") ~> RunSaved

\* a finished run of three windows, the last one shorter than 30 days,
\* some fetch having returned nothing
C16_Witness ==
  /\ RunSaved
  /\ Len(windows) = 3
  /\ windows[1][1] = start_dt
  /\ windows[3][2] = end_dt
  /\ windows[3][2] - windows[3][1] < CHUNK_DAYS
  /\ ~faithful

\* ------------------------------------------------------------------------
\* Samples fetched twice
\* ------------------------------------------------------------------------
\* s with each sample occurring once: a sample equal to the one before it
\* is dropped
RECURSIVE Once(_)
Once(s) ==
  IF Len(s) <= 1 THEN s
  ELSE LET rest == Once(SubSeq(s, 1, Len(s) - 1))
       IN IF s[Len(s)] = s[Len(s) - 1] THEN rest ELSE Append(rest, s[Len(s)])

\* the occurrences of one sample in s are next to one another
DuplicatesAdjacent(s) ==
  \A i, j \in 1..Len(s) :
    (i < j /\ s[i] = s[j]) => \A m \in i..j : s[m] = s[i]

\* ------------------------------------------------------------------------
\* C17: consecutive chunk windows share their boundary instant, so a sample
\* at a boundary can be fetched twice; after the chronological sort the
\* copies of a sample are adjacent, and event_peaks returns for the sorted
\* points, copies included, the peak list it returns for the same points
\* with each sample occurring once.
\* ------------------------------------------------------------------------
C17_BoundaryDuplicatesHarmless ==
  \A k \in 1..Len(hist) :
    /\ \A w \in 1..(Len(hist[k].windows) - 1) :
         hist[k].windows[w][2] = hist[k].windows[w + 1][1]
    /\ DuplicatesAdjacent(hist[k].points)
    /\ hist[k].new_peaks = event_peaks(Once(hist[k].points), THRESH_MINOR)

\* a run that fetched the sample at the boundary of its two windows twice,
\* that sample lying inside an event that began before it
C17_Witness ==
  \E k \in 1..Len(hist) :
    LET pts == hist[k].points
        ws == hist[k].windows
    IN /\ Len(ws) = 2
       /\ \E i \in 2..(Len(pts) - 1) :
            /\ pts[i] = pts[i + 1]
            /\ pts[i][1] = ws[1][2]
            /\ pts[i][2] >= THRESH_MINOR
            /\ pts[i - 1][2] >= THRESH_MINOR
            /\ pts[i - 1][1] < pts[i][1]
       /\ Once(pts) # pts
       /\ hist[k].new_peaks # <<>>

====
